---- MODULE Spec2Model ----
(***************************************************************************)
(* Grid ledger of the TQQQ bot.                                            *)
(*                                                                         *)
(* Spec   : the tester (src/tqqq_bot_tester/bot_tester.py): one iteration  *)
(*          of simulation_loop is a run of steps TickBegin, MatchEngine,   *)
(*          SeasonCheck, GetStartCash, Startup, SellLogic, Generate,       *)
(*          ExecuteBuys.  The loop awaits only in its sleep, so the web    *)
(*          handlers (handle_index, api_clear_db) run only at pc = "sleep".*)
(*                                                                         *)
(* SpecV2 : the v2 bot (src/tqqq_algo_trader_v2/trader_bot.py, the copy     *)
(*          that starts at line 466): seeding, then trading_loop as steps  *)
(*          V2TickBegin, V2SellLot per lot, V2SellDone, V2BuyLot per lot,  *)
(*          V2Reconcile; the broker resolves orders between iterations.    *)
(*                                                                         *)
(* SpecAlloc : the allocation calculator called on its own, with arguments *)
(*          from bounded sets: compute_allocation_levels of the tester     *)
(*          (AllocLevel) and of the v2 bot (AllocList), and the rows a     *)
(*          season of the tester writes with them (SeasonRows).            *)
(*                                                                         *)
(* SpecCrash : Spec with the tester process stopped between two commits    *)
(*          of an iteration and started again on the same database file.   *)
(*                                                                         *)
(* SpecLive : Spec with weak fairness on the steps of simulation_loop.     *)
(*                                                                         *)
(* SpecV1 : the v1 bot (src/tqqq_algo_trader/trader_bot.py): one cycle of  *)
(*          main is a run of steps V1Fetch, V1Reconcile, V1TradingLogic.   *)
(*                                                                         *)
(* Money is counted in cents (integers); round(x, 2) is RoundDiv.          *)
(***************************************************************************)
EXTENDS Integers, Sequences, FiniteSets, TLC

\* ---------------------------------------------------------------- bounds
\* number of season resets after which no further tick is started
MaxResets == 2

\* ----------------------------------------------- configuration (options.json)
\* sim_config['levels']
TotalLevels == 3
\* sim_config['reduction_factor'] = RFNum / RFDen
RFNum == 1
RFDen == 2
\* sim_config['initial_cash'], in cents
InitialCash == 900000
\* values the operator gives manual_market_price, in cents
PRICES == {9720, 9800, 9980, 10200}

VARIABLES
    pc,        \* position of simulation_loop inside its iteration
    price,     \* local `price` of the running iteration (0 outside one)
    tables,    \* TRUE while the three tables exist in the database file
    lots,      \* table virtual_lots: level -> row
    orders,    \* table orders, in id order
    meta,      \* table meta: key -> value
    resets,    \* number of season resets so far
    position,  \* shares the simulated account holds (buy fills minus sell fills)
    hist,      \* history of the running iteration
    dash,      \* last response of handle_index (NoDash once the loop runs on)
    v2pc,      \* position of the v2 process: boot, sleep, sell, buy, dead
    v2price,   \* local `price` of the running v2 iteration
    v2i,       \* level the running for-loop of trading_loop has come to
    v2actual,  \* local `actual_shares` of the buy pass
    v2lots,    \* v2 table virtual_lots
    v2orders,  \* v2 table orders, in id order
    v2paused,  \* meta key "paused" is "1"
    bstatus,   \* the broker's status of each submitted order
    bpos,      \* the broker's position in SYMBOL
    calc,      \* last call of the allocation calculator: arguments and result
    crashes,   \* number of times the tester process was stopped inside an iteration
    v1pc,      \* position of the v1 main loop: sleep, recon, logic
    v1price,   \* local `current_price` of the running v1 cycle (0 outside one)
    v1ledger,  \* the v1 ledger_df, in row order
    v1file,    \* the rows of the ledger file written by save_ledger
    v1shares,  \* local `shares` of the last trading_logic call (-1: not computed)
    v1order_id,\* local `order_id` of the last trading_logic call (0: None or no call)
    v1broker   \* number of bracket orders the broker has accepted

tvars == <<pc, price, tables, lots, orders, meta, resets, position, hist, dash>>

v2vars == <<v2pc, v2price, v2i, v2actual, v2lots, v2orders, v2paused, bstatus, bpos>>

avars == <<calc>>

cvars == <<crashes>>

v1vars == <<v1pc, v1price, v1ledger, v1file, v1shares, v1order_id, v1broker>>

vars == <<tvars, v2vars, avars, cvars, v1vars>>

NoLots == [l \in {} |-> 0]
NoMeta == [k \in {} |-> 0]
NoDash == [kind |-> "none"]
NoHist == [wiped |-> FALSE, reset |-> FALSE, mismatch |-> FALSE]

\* ------------------------------------------------------------- arithmetic
RECURSIVE Pow(_, _)
Pow(b, e) == IF e = 0 THEN 1 ELSE b * Pow(b, e - 1)

Max(a, b) == IF a >= b THEN a ELSE b

\* round(n / d) to the nearest integer, ties to even (Python round)
RoundDiv(n, d) ==
    LET q == n \div d
        r == n % d
    IN  IF 2 * r > d THEN q + 1
        ELSE IF 2 * r < d THEN q
        ELSE IF q % 2 = 0 THEN q ELSE q + 1

\* limit = round(target * 1.005, 2)
AnchorLimit(target) == RoundDiv(target * 1005, 1000)

\* sell_target = round(buy * 1.01, 2)
SellTarget(buy) == RoundDiv(buy * 101, 100)

\* base_alloc_factor * rf^i with rf = rfn / rfd, as the fraction
\* alloc_weight_num / alloc_weight_den (rf = 1: (1 - rf) / total_levels = 0)
alloc_weight_num(rfn, rfd, total_levels, i) ==
    IF rfn = rfd THEN 0
    ELSE (rfd - rfn) * Pow(rfd, total_levels - 1 - i) * Pow(rfn, i)

\* variant: denom = 1 - rf, without the power
alloc_weight_den_nopower(rfn, rfd, total_levels) ==
    IF rfn = rfd THEN total_levels
    ELSE (rfd - rfn) * Pow(rfd, total_levels - 1)

alloc_weight_den(rfn, rfd, total_levels) ==
    IF rfn = rfd THEN total_levels
    ELSE Pow(rfd, total_levels) - Pow(rfn, total_levels)

\* variant: the step is counted from the current level, not the next one
StepDownPrice_current(anchor_price, next_level) ==
    RoundDiv(anchor_price * (100 - (next_level - 1)), 100)

\* buy_price = round(anchor_price * (1 - next_level * 0.01), 2)
StepDownPrice(anchor_price, next_level) == RoundDiv(anchor_price * (100 - next_level), 100)

\* variant: the share count is rounded up
AffordableShares_roundup(starting_cash, rfn, rfd, total_levels, i, buy_price) ==
    LET num == starting_cash * alloc_weight_num(rfn, rfd, total_levels, i)
        den == alloc_weight_den(rfn, rfd, total_levels) * buy_price
    IN  (num + den - 1) \div den

\* int(alloc_cash // buy_price), alloc_cash = starting_cash * weight
AffordableShares(starting_cash, rfn, rfd, total_levels, i, buy_price) ==
    (starting_cash * alloc_weight_num(rfn, rfd, total_levels, i))
        \div (alloc_weight_den(rfn, rfd, total_levels) * buy_price)

\* variant: without the early return for next_level > total_levels
compute_level_nocap(anchor_price, current_level, starting_cash, rfn, rfd, total_levels) ==
    LET next_level == current_level + 1
        buy_price  == StepDownPrice(anchor_price, next_level)
        num == IF rfn = rfd THEN 0
               ELSE starting_cash * (rfd - rfn) * Pow(rfd, total_levels - 1)
                                  * Pow(rfn, current_level)
        den == alloc_weight_den(rfn, rfd, total_levels) * Pow(rfd, current_level)
    IN  [shares |-> Max(1, num \div (den * buy_price)), buy_price |-> buy_price]

\* compute_allocation_levels(anchor_price, current_level, starting_cash, rf, total_levels)
\* with rf = rfn / rfd
compute_level(anchor_price, current_level, starting_cash, rfn, rfd, total_levels) ==
    LET next_level == current_level + 1
        buy_price  == StepDownPrice(anchor_price, next_level)
    IN  IF next_level > total_levels
        THEN [shares |-> 0, buy_price |-> 0]
        ELSE [shares |-> Max(1, AffordableShares(starting_cash, rfn, rfd, total_levels,
                                                 current_level, buy_price)),
              buy_price |-> buy_price]

\* the call of the loop: rf is sim_config['reduction_factor']
compute_allocation_levels(anchor_price, current_level, starting_cash, total_levels) ==
    compute_level(anchor_price, current_level, starting_cash, RFNum, RFDen, total_levels)

\* ------------------------------------------------------------------ meta
HasMeta(m, key) == key \in DOMAIN m

\* write_meta(key, val)
write_meta(m, key, val) == [k \in (DOMAIN m) \cup {key} |-> IF k = key THEN val ELSE m[k]]

\* get_sim_cash(): the stored cash, written from initial_cash when missing
MetaAfterGetCash(m) ==
    IF HasMeta(m, "sim_cash") THEN m ELSE write_meta(m, "sim_cash", InitialCash)

get_sim_cash(m) == MetaAfterGetCash(m)["sim_cash"]

\* update_sim_cash(amount_change)
update_sim_cash(m, amount_change) ==
    write_meta(m, "sim_cash", get_sim_cash(m) + amount_change)

\* ---------------------------------------------------------------- tables
Levels(l) == DOMAIN l

LotsWithStatus(l, st) == {k \in DOMAIN l : l[k].status = st}

RECURSIVE SumShares(_, _)
SumShares(l, S) ==
    IF S = {} THEN 0
    ELSE LET k == CHOOSE x \in S : TRUE
         IN  l[k].virtual_shares + SumShares(l, S \ {k})

\* get_sim_shares(): SUM(virtual_shares) WHERE status='OPEN'
get_sim_shares(l) == SumShares(l, LotsWithStatus(l, "OPEN"))

\* submit_sim_order(side, qty, price): the new row; its sim id is its rank
NewOrder(os, side, qty, limit, lvl) ==
    [alpaca_id |-> Len(os) + 1, side |-> side, qty |-> qty, price |-> limit,
     status |-> "new", lvl |-> lvl]

submit_sim_order(os, side, qty, limit, lvl) == Append(os, NewOrder(os, side, qty, limit, lvl))

\* ---------------------------------------------------------- match_engine
\* variant: only buy orders fill
FillsAt_buyonly(side, current_price, limit_price) ==
    side = "buy" /\ current_price <= limit_price

\* the fill conditions of match_engine
FillsAt(side, current_price, limit_price) ==
    \/ side = "buy"  /\ current_price <= limit_price
    \/ side = "sell" /\ current_price >= limit_price

\* variant: the cost of a buy is added like the proceeds of a sell
CashChange_unsigned(side, qty, limit_price) == qty * limit_price

\* update_sim_cash(-cost) for a buy, update_sim_cash(proceeds) for a sell
CashChange(side, qty, limit_price) ==
    IF side = "buy" THEN 0 - qty * limit_price ELSE qty * limit_price

\* variant: a fill closes the lot whatever the side
StatusOnFill_anyside(side) == "CLOSED"

\* status given to the lot waiting for a filled order
StatusOnFill(side) == IF side = "buy" THEN "OPEN" ELSE "CLOSED"

\* UPDATE virtual_lots SET status=... WHERE alpaca_order_id=?
ApplyFillToLots(l, o) ==
    [k \in DOMAIN l |->
        IF l[k].alpaca_order_id = o.alpaca_id
        THEN [l[k] EXCEPT !.status = StatusOnFill(o.side)]
        ELSE l[k]]

\* the for-loop of match_engine over the orders, from row i on
RECURSIVE match_from(_, _, _)
match_from(i, st, current_price) ==
    IF i > Len(st.orders) THEN st
    ELSE LET o == st.orders[i]
         IN  IF o.status = "new" /\ FillsAt(o.side, current_price, o.price)
             THEN match_from(i + 1,
                     [lots     |-> ApplyFillToLots(st.lots, o),
                      orders   |-> [st.orders EXCEPT ![i].status = "filled"],
                      meta     |-> update_sim_cash(st.meta, CashChange(o.side, o.qty, o.price)),
                      position |-> st.position
                                   + (IF o.side = "buy" THEN o.qty ELSE 0 - o.qty)],
                     current_price)
             ELSE match_from(i + 1, st, current_price)

match_engine(st, current_price) == match_from(1, st, current_price)

\* ------------------------------------------------------- simulation_loop
TesterInit ==
    /\ pc = "sleep"
    /\ price = 0
    /\ tables = TRUE
    /\ lots = NoLots
    /\ orders = << >>
    /\ meta = NoMeta
    /\ resets = 0
    /\ position = 0
    /\ hist = NoHist
    /\ dash = NoDash

\* 1. reload_config(); price = get_sim_price()
TickBegin(p) ==
    /\ pc = "sleep"
    /\ resets < MaxResets
    /\ price' = p
    /\ pc' = "match"
    /\ dash' = NoDash
    /\ UNCHANGED <<tables, lots, orders, meta, resets, position, hist>>
    /\ UNCHANGED v2vars
    /\ UNCHANGED avars
    /\ UNCHANGED v1vars
    /\ UNCHANGED cvars

\* variant: the exception leaves the loop
AfterException_dead == "dead"

\* where `except Exception: logger.exception(...)` leaves the loop: at its sleep
AfterException == "sleep"

\* 2. match_engine(); without the tables its first SELECT raises and the
\*    iteration ends in the except clause
MatchEngine ==
    /\ pc = "match"
    /\ IF tables
       THEN LET r == match_engine([lots |-> lots, orders |-> orders, meta |-> meta,
                                   position |-> position], price)
            IN  /\ lots' = r.lots
                /\ orders' = r.orders
                /\ meta' = r.meta
                /\ position' = r.position
                /\ pc' = "season"
                /\ UNCHANGED <<price, hist>>
       ELSE /\ pc' = AfterException
            /\ price' = 0
            /\ hist' = NoHist
            /\ UNCHANGED <<lots, orders, meta, position>>
    /\ UNCHANGED <<tables, resets, dash>>
    /\ UNCHANGED v2vars
    /\ UNCHANGED avars
    /\ UNCHANGED v1vars
    /\ UNCHANGED cvars

\* variant: the season check never finds the anchor CLOSED
AnchorClosed_never(l) == FALSE

\* the anchor test of step 3
AnchorClosed(l) == 1 \in DOMAIN l /\ l[1].status = "CLOSED"

\* value written to campaign_starting_equity at the reset: get_sim_cash()
ResetEquity(m) == get_sim_cash(m)

\* variant: the reset leaves the orders table as it is
OrdersAfterReset_kept(os) == os

\* DELETE FROM orders: the orders table after the season reset
OrdersAfterReset(os) == << >>

\* 3. season reset when the anchor is CLOSED
SeasonCheck ==
    /\ pc = "season"
    /\ IF AnchorClosed(lots)
       THEN /\ lots' = NoLots
            /\ orders' = OrdersAfterReset(orders)
            /\ meta' = write_meta(MetaAfterGetCash(meta), "campaign_starting_equity",
                                  ResetEquity(meta))
            /\ resets' = resets + 1
            /\ hist' = [hist EXCEPT !.reset = TRUE]
       ELSE UNCHANGED <<lots, orders, meta, resets, hist>>
    /\ pc' = "cash"
    /\ UNCHANGED <<price, tables, position, dash>>
    /\ UNCHANGED v2vars
    /\ UNCHANGED avars
    /\ UNCHANGED v1vars
    /\ UNCHANGED cvars

\* variant: the start cash is rewritten from the configuration in every iteration
NeedsStartCash_always(m) == TRUE

\* the test `if not start_cash_val`
NeedsStartCash(m) == ~HasMeta(m, "campaign_starting_equity")

\* 4. start_cash: campaign_starting_equity, written from initial_cash when missing
GetStartCash ==
    /\ pc = "cash"
    /\ meta' = IF NeedsStartCash(meta)
               THEN write_meta(meta, "campaign_starting_equity", InitialCash)
               ELSE meta
    /\ hist' = [hist EXCEPT !.mismatch = (get_sim_shares(lots) # position)]
    /\ pc' = "startup"
    /\ UNCHANGED <<price, tables, lots, orders, resets, position, dash>>
    /\ UNCHANGED v2vars
    /\ UNCHANGED avars
    /\ UNCHANGED v1vars
    /\ UNCHANGED cvars

start_cash == meta["campaign_starting_equity"]

\* variant: the anchor's sell target is taken from the market price
AnchorRow_target(target, cash, oid) ==
    LET limit == AnchorLimit(target)
        qty   == compute_allocation_levels(target, 0, cash, TotalLevels).shares
    IN  [virtual_shares |-> qty, buy_price |-> limit, sell_target |-> SellTarget(target),
         status |-> "ORDER_SENT", alpaca_order_id |-> oid]

\* the anchor row inserted by STARTUP
AnchorRow(target, cash, oid) ==
    LET limit == AnchorLimit(target)
        qty   == compute_allocation_levels(target, 0, cash, TotalLevels).shares
    IN  [virtual_shares |-> qty, buy_price |-> limit, sell_target |-> SellTarget(limit),
         status |-> "ORDER_SENT", alpaca_order_id |-> oid]

\* STARTUP: an empty ledger gets its anchor and the anchor's buy order
Startup ==
    /\ pc = "startup"
    /\ IF Levels(lots) = {}
       THEN LET row == AnchorRow(price, start_cash, Len(orders) + 1)
            IN  /\ orders' = submit_sim_order(orders, "buy", row.virtual_shares,
                                              row.buy_price, 1)
                /\ lots' = (1 :> row)
       ELSE UNCHANGED <<lots, orders>>
    /\ pc' = "sell"
    /\ UNCHANGED <<price, tables, meta, resets, position, hist, dash>>
    /\ UNCHANGED v2vars
    /\ UNCHANGED avars
    /\ UNCHANGED v1vars
    /\ UNCHANGED cvars

\* variant: the sell logic also evaluates CLOSED levels
SellCandidates_closed(l) == LotsWithStatus(l, "OPEN") \cup LotsWithStatus(l, "CLOSED")

\* levels the sell logic evaluates
SellCandidates(l) == LotsWithStatus(l, "OPEN")

\* variant: the trigger applies the 1% markup to the sell_target once more
SellTriggered_markup(p, target) == 100 * p >= 101 * target

\* `if price >= target` of the sell logic
SellTriggered(p, target) == p >= target

\* the for-loop of the sell logic over the levels in S, lowest level first
RECURSIVE sell_from(_, _, _)
sell_from(S, st, p) ==
    IF S = {} THEN st
    ELSE LET k == CHOOSE x \in S : \A y \in S : x <= y
             row == st.lots[k]
         IN  IF SellTriggered(p, row.sell_target)
             THEN sell_from(S \ {k},
                     [lots   |-> [st.lots EXCEPT ![k].status = "ORDER_SENT",
                                                 ![k].alpaca_order_id = Len(st.orders) + 1],
                      orders |-> submit_sim_order(st.orders, "sell", row.virtual_shares,
                                                  row.sell_target, k)],
                     p)
             ELSE sell_from(S \ {k}, st, p)

SellLogic ==
    /\ pc = "sell"
    /\ LET r == sell_from(SellCandidates(lots), [lots |-> lots, orders |-> orders], price)
       IN  /\ lots' = r.lots
           /\ orders' = r.orders
    /\ pc' = "gen"
    /\ UNCHANGED <<price, tables, meta, resets, position, hist, dash>>
    /\ UNCHANGED v2vars
    /\ UNCHANGED avars
    /\ UNCHANGED v1vars
    /\ UNCHANGED cvars

\* variant: the test looks at the ORDER_SENT levels only
MayGenerate_nopending(l) == LotsWithStatus(l, "ORDER_SENT") = {}

\* variant: the test looks at the PENDING levels only
MayGenerate_nosent(l) == LotsWithStatus(l, "PENDING") = {}

\* the test `if not pending and <ORDER_SENT count> == 0`
MayGenerate(l) ==
    LotsWithStatus(l, "PENDING") = {} /\ LotsWithStatus(l, "ORDER_SENT") = {}

MaxLevel(l) == CHOOSE x \in DOMAIN l : \A y \in DOMAIN l : y <= x

\* the row inserted for the next level
PendingRow(anchor_price, max_lvl, cash) ==
    LET a == compute_allocation_levels(anchor_price, max_lvl, cash, TotalLevels)
    IN  [virtual_shares |-> a.shares, buy_price |-> a.buy_price,
         sell_target |-> SellTarget(a.buy_price), status |-> "PENDING",
         alpaca_order_id |-> 0]

\* generation of the next PENDING level
Generate ==
    /\ pc = "gen"
    /\ IF MayGenerate(lots) /\ 1 \in DOMAIN lots
       THEN LET max_lvl == MaxLevel(lots)
                row == PendingRow(lots[1].buy_price, max_lvl, start_cash)
            IN  IF row.virtual_shares > 0
                THEN lots' = lots @@ ((max_lvl + 1) :> row)
                ELSE UNCHANGED lots
       ELSE UNCHANGED lots
    /\ pc' = "buy"
    /\ UNCHANGED <<price, tables, orders, meta, resets, position, hist, dash>>
    /\ UNCHANGED v2vars
    /\ UNCHANGED avars
    /\ UNCHANGED v1vars
    /\ UNCHANGED cvars

\* variant: the buy logic also evaluates ORDER_SENT levels
BuyCandidates_sent(l) == LotsWithStatus(l, "PENDING") \cup LotsWithStatus(l, "ORDER_SENT")

\* levels the buy logic evaluates
BuyCandidates(l) == LotsWithStatus(l, "PENDING")

\* variant: a PENDING level is bought whatever the price
BuyTriggered_always(p, target) == TRUE

\* the test `if price <= target` of Execute Buys
BuyTriggered(p, target) == p <= target

\* the for-loop of Execute Buys over the levels in S, lowest level first
RECURSIVE buy_from(_, _, _)
buy_from(S, st, p) ==
    IF S = {} THEN st
    ELSE LET k == CHOOSE x \in S : \A y \in S : x <= y
             row == st.lots[k]
         IN  IF BuyTriggered(p, row.buy_price)
             THEN buy_from(S \ {k},
                     [lots   |-> [st.lots EXCEPT ![k].status = "ORDER_SENT",
                                                 ![k].alpaca_order_id = Len(st.orders) + 1],
                      orders |-> submit_sim_order(st.orders, "buy", row.virtual_shares,
                                                  row.buy_price, k)],
                     p)
             ELSE buy_from(S \ {k}, st, p)

\* Execute Buys, then the sleep
ExecuteBuys ==
    /\ pc = "buy"
    /\ LET r == buy_from(BuyCandidates(lots), [lots |-> lots, orders |-> orders], price)
       IN  /\ lots' = r.lots
           /\ orders' = r.orders
    /\ pc' = "sleep"
    /\ price' = 0
    /\ hist' = NoHist
    /\ UNCHANGED <<tables, meta, resets, position, dash>>
    /\ UNCHANGED v2vars
    /\ UNCHANGED avars
    /\ UNCHANGED v1vars
    /\ UNCHANGED cvars

\* ------------------------------------------------------------- handlers
\* clear_db(): the three tables are dropped
ClearDb ==
    /\ pc = "sleep"
    /\ tables' = FALSE
    /\ lots' = NoLots
    /\ orders' = << >>
    /\ meta' = NoMeta
    /\ position' = 0
    /\ hist' = [hist EXCEPT !.wiped = TRUE]
    /\ dash' = NoDash
    /\ UNCHANGED <<pc, price, resets>>
    /\ UNCHANGED v2vars
    /\ UNCHANGED avars
    /\ UNCHANGED v1vars
    /\ UNCHANGED cvars

\* a new process: the module-level CREATE TABLE IF NOT EXISTS
Restart ==
    /\ pc = "sleep"
    /\ ~tables
    /\ tables' = TRUE
    /\ dash' = NoDash
    /\ UNCHANGED <<pc, price, lots, orders, meta, resets, position, hist>>
    /\ UNCHANGED v2vars
    /\ UNCHANGED avars
    /\ UNCHANGED v1vars
    /\ UNCHANGED cvars

\* the dictionaries handle_index hands to the dashboard
DashPage(l, m, p) ==
    LET shares == get_sim_shares(l)
        cash   == get_sim_cash(m)
        equity == cash + shares * p
        start_equity == IF HasMeta(m, "campaign_starting_equity")
                        THEN m["campaign_starting_equity"] ELSE InitialCash
    IN  [kind |-> "page",
         reconciled |-> TRUE, assumed_shares |-> shares, actual_shares |-> shares,
         current_equity |-> equity, starting_equity |-> start_equity,
         current_pl |-> equity - start_equity, last_season_pl |-> 0]

\* handle_index: GET /
HandleIndex(p) ==
    /\ pc = "sleep"
    /\ IF tables
       THEN /\ dash' = DashPage(lots, meta, p)
            /\ meta' = MetaAfterGetCash(meta)
       ELSE /\ dash' = [kind |-> "error"]
            /\ UNCHANGED meta
    /\ UNCHANGED <<pc, price, tables, lots, orders, resets, position, hist>>
    /\ UNCHANGED v2vars
    /\ UNCHANGED avars
    /\ UNCHANGED v1vars
    /\ UNCHANGED cvars

\* ============================== the tester stopped inside an iteration (SpecCrash)
\* number of stops after which the process is no longer stopped
MaxCrashes == 1

CrashInit == crashes = 0

\* the process is stopped and started again: the locals of the iteration are
\* lost, the database file is kept, and the new loop starts with a new iteration
Killed ==
    /\ crashes < MaxCrashes
    /\ crashes' = crashes + 1
    /\ pc' = "sleep"
    /\ price' = 0
    /\ hist' = NoHist
    /\ dash' = NoDash
    /\ UNCHANGED tables
    /\ UNCHANGED v2vars
    /\ UNCHANGED avars
    /\ UNCHANGED v1vars

\* the for-loop of match_engine over the first n rows of the orders table
RECURSIVE match_prefix(_, _, _)
match_prefix(n, st, current_price) ==
    IF n = 0 THEN st
    ELSE LET s1 == match_prefix(n - 1, st, current_price)
             o  == s1.orders[n]
         IN  IF o.status = "new" /\ FillsAt(o.side, current_price, o.price)
             THEN [lots     |-> ApplyFillToLots(s1.lots, o),
                   orders   |-> [s1.orders EXCEPT ![n].status = "filled"],
                   meta     |-> update_sim_cash(s1.meta, CashChange(o.side, o.qty, o.price)),
                   position |-> s1.position + (IF o.side = "buy" THEN o.qty ELSE 0 - o.qty)]
             ELSE s1

\* stopped between two steps of an iteration
CrashBetweenSteps ==
    /\ pc # "sleep"
    /\ Killed
    /\ UNCHANGED <<lots, orders, meta, resets, position>>

\* stopped in match_engine while it handles the fill of row n: after the commit
\* of update_sim_cash and before the commit of the two status updates
CrashInMatch(n) ==
    /\ pc = "match"
    /\ tables
    /\ n \in 1..Len(orders)
    /\ LET s1 == match_prefix(n - 1, [lots |-> lots, orders |-> orders, meta |-> meta,
                                      position |-> position], price)
           o  == s1.orders[n]
       IN  /\ o.status = "new"
           /\ FillsAt(o.side, price, o.price)
           /\ meta' = update_sim_cash(s1.meta, CashChange(o.side, o.qty, o.price))
           /\ lots' = s1.lots
           /\ orders' = s1.orders
           /\ position' = s1.position
    /\ Killed
    /\ UNCHANGED resets

\* stopped in the season reset: after the commit of the two DELETEs and before
\* campaign_starting_equity is written
CrashInReset ==
    /\ pc = "season"
    /\ AnchorClosed(lots)
    /\ lots' = NoLots
    /\ orders' = << >>
    /\ resets' = resets + 1
    /\ Killed
    /\ UNCHANGED <<meta, position>>

\* stopped in STARTUP: after the commit of submit_sim_order and before the
\* INSERT of the anchor row
CrashInStartup ==
    /\ pc = "startup"
    /\ Levels(lots) = {}
    /\ LET row == AnchorRow(price, start_cash, Len(orders) + 1)
       IN  orders' = submit_sim_order(orders, "buy", row.virtual_shares, row.buy_price, 1)
    /\ Killed
    /\ UNCHANGED <<lots, meta, resets, position>>

\* stopped in the sell logic at level k: the levels before k are done, the sell
\* order of k is committed and the UPDATE of its row is not
CrashInSell(k) ==
    /\ pc = "sell"
    /\ k \in SellCandidates(lots)
    /\ SellTriggered(price, lots[k].sell_target)
    /\ LET r == sell_from({x \in SellCandidates(lots) : x < k},
                          [lots |-> lots, orders |-> orders], price)
       IN  /\ lots' = r.lots
           /\ orders' = submit_sim_order(r.orders, "sell", lots[k].virtual_shares,
                                         lots[k].sell_target, k)
    /\ Killed
    /\ UNCHANGED <<meta, resets, position>>

\* stopped in Execute Buys at level k: the buy order of k is committed and the
\* UPDATE of its row is not
CrashInBuy(k) ==
    /\ pc = "buy"
    /\ k \in BuyCandidates(lots)
    /\ BuyTriggered(price, lots[k].buy_price)
    /\ LET r == buy_from({x \in BuyCandidates(lots) : x < k},
                         [lots |-> lots, orders |-> orders], price)
       IN  /\ lots' = r.lots
           /\ orders' = submit_sim_order(r.orders, "buy", lots[k].virtual_shares,
                                         lots[k].buy_price, k)
    /\ Killed
    /\ UNCHANGED <<meta, resets, position>>

\* ====================================================== the v2 bot (SpecV2)
\* number of orders after which no further v2 iteration is started
MaxV2Orders == 3

\* config.yaml of the v2 bot: levels, initial_cash and initial_price (cents; a
\* multiple of 100 so that the 1% step is a whole number of cents)
LEVELS == 2
INITIAL_CASH == 100000
INITIAL_PRICE == 10000
MIN_ORDER_SHARES == 1
MAX_POSITION_SHARES == 10
\* prices get_latest_price returns
V2PRICES == {9900, 10000, 10100}

Terminal == {"filled", "canceled", "rejected", "expired"}

\* one element of compute_allocation_levels(initial_price, starting_cash, rf, levels),
\* with the shares and the sell target seed_virtual_ledger_if_empty derives from it
SeedRow(initial_price, starting_cash, levels, i) ==
    LET step      == initial_price \div 100
        buy_price == initial_price - i * step
        num == IF RFNum = RFDen THEN 0
               ELSE starting_cash * (RFDen - RFNum) * Pow(RFDen, levels - 1) * Pow(RFNum, i)
        den == IF RFNum = RFDen THEN levels
               ELSE (Pow(RFDen, levels) - Pow(RFNum, levels)) * Pow(RFDen, i)
    IN  [virtual_shares |-> Max(MIN_ORDER_SHARES, num \div (den * buy_price)),
         buy_price |-> buy_price,
         sell_target |-> buy_price + step,
         status |-> "OPEN"]

V2Init ==
    /\ v2pc = "boot"
    /\ v2price = 0
    /\ v2i = 0
    /\ v2actual = 0
    /\ v2lots = NoLots
    /\ v2orders = << >>
    /\ v2paused = FALSE
    /\ bstatus = << >>
    /\ bpos = 0

\* variant: the RuntimeError of seeding is logged and the loop is entered
AfterSeedFailure_loop == "sleep"

\* where the RuntimeError of seeding leaves the process: main() does not catch
\* it, asyncio.run re-raises it and the process ends
AfterSeedFailure == "dead"

\* main(): seed_virtual_ledger_if_empty() with the price p that is available
\* (0: none); the RuntimeError of a missing price ends the process
V2Seed(p) ==
    /\ v2pc = "boot"
    /\ IF p <= 0
       THEN /\ v2pc' = AfterSeedFailure
            /\ UNCHANGED v2lots
       ELSE /\ v2pc' = "sleep"
            /\ v2lots' = [k \in 1..LEVELS |-> SeedRow(p, INITIAL_CASH, LEVELS, k - 1)]
    /\ UNCHANGED <<v2price, v2i, v2actual, v2orders, v2paused, bstatus, bpos>>
    /\ UNCHANGED tvars
    /\ UNCHANGED avars
    /\ UNCHANGED v1vars
    /\ UNCHANGED cvars

\* api_pause / api_resume: set_paused(True) / set_paused(False)
ApiPause ==
    /\ v2pc = "sleep"
    /\ ~v2paused
    /\ v2paused' = TRUE
    /\ UNCHANGED <<v2pc, v2price, v2i, v2actual, v2lots, v2orders, bstatus, bpos>>
    /\ UNCHANGED tvars
    /\ UNCHANGED avars
    /\ UNCHANGED v1vars
    /\ UNCHANGED cvars

ApiResume ==
    /\ v2pc = "sleep"
    /\ v2paused
    /\ v2paused' = FALSE
    /\ UNCHANGED <<v2pc, v2price, v2i, v2actual, v2lots, v2orders, bstatus, bpos>>
    /\ UNCHANGED tvars
    /\ UNCHANGED avars
    /\ UNCHANGED v1vars
    /\ UNCHANGED cvars

\* variant: the loop never sees the flag
is_paused_never(flag) == FALSE

\* variant: the test of the flag is inverted
is_paused_inverted(flag) == ~flag

\* is_paused(): read_meta("paused") == "1"
is_paused(flag) == flag

\* get_latest_price() returned None
NoPrice == -1

\* variant: a missing price is not tested for
PriceFetched_any(p) == TRUE

\* the test `if price is None` of trading_loop, negated
PriceFetched(p) == p # NoPrice

\* an iteration that finds the bot paused: sleep and continue
V2Skip ==
    /\ v2pc = "sleep"
    /\ is_paused(v2paused)
    /\ UNCHANGED v2vars
    /\ UNCHANGED tvars
    /\ UNCHANGED avars
    /\ UNCHANGED v1vars
    /\ UNCHANGED cvars

\* an iteration that is not paused: price = get_latest_price(); without a
\* price it sleeps and continues, with one it enters the sell pass
V2TickBegin(p) ==
    /\ v2pc = "sleep"
    /\ ~is_paused(v2paused)
    /\ Len(v2orders) < MaxV2Orders
    /\ v2price' = p
    /\ IF PriceFetched(p)
       THEN /\ v2pc' = "sell"
            /\ v2i' = 1
       ELSE UNCHANGED <<v2pc, v2i>>
    /\ UNCHANGED <<v2actual, v2lots, v2orders, v2paused, bstatus, bpos>>
    /\ UNCHANGED tvars
    /\ UNCHANGED avars
    /\ UNCHANGED v1vars
    /\ UNCHANGED cvars

\* place_market_order(side, qty) for level lvl: the row of an accepted order
V2NewOrder(os, side, qty, lvl) ==
    [alpaca_id |-> Len(os) + 1, side |-> side, qty |-> qty, status |-> "new", lvl |-> lvl]

\* status the sell pass gives a lot after place_market_order
StatusAfterSell(accepted) == "CLOSED"

\* SELL logic for the lot v2i; accepted: api.submit_order returned an order
V2SellLot(accepted) ==
    /\ v2pc = "sell"
    /\ v2i <= LEVELS
    /\ LET lot == v2lots[v2i]
           qty == Max(1, lot.virtual_shares)
       IN  IF lot.status = "OPEN" /\ v2price >= lot.sell_target /\ bpos > 0
           THEN /\ v2lots' = [v2lots EXCEPT ![v2i].status = StatusAfterSell(accepted)]
                /\ IF accepted
                   THEN /\ v2orders' = Append(v2orders, V2NewOrder(v2orders, "sell", qty, v2i))
                        /\ bstatus' = Append(bstatus, "new")
                   ELSE UNCHANGED <<v2orders, bstatus>>
           ELSE /\ accepted
                /\ UNCHANGED <<v2lots, v2orders, bstatus>>
    /\ v2i' = v2i + 1
    /\ UNCHANGED <<v2pc, v2price, v2actual, v2paused, bpos>>
    /\ UNCHANGED tvars
    /\ UNCHANGED avars
    /\ UNCHANGED v1vars
    /\ UNCHANGED cvars

\* end of the sell pass: actual_shares = get_actual_position_shares()
V2SellDone ==
    /\ v2pc = "sell"
    /\ v2i > LEVELS
    /\ v2actual' = bpos
    /\ v2pc' = "buy"
    /\ v2i' = 1
    /\ UNCHANGED <<v2price, v2lots, v2orders, v2paused, bstatus, bpos>>
    /\ UNCHANGED tvars
    /\ UNCHANGED avars
    /\ UNCHANGED v1vars
    /\ UNCHANGED cvars

\* variant: the cap is compared with the level's shares alone
WithinCap_lotonly(actual_shares, vshares) == vshares <= MAX_POSITION_SHARES

\* negation of `if actual_shares + vshares > MAX_POSITION_SHARES: continue`
WithinCap(actual_shares, vshares) == actual_shares + vshares <= MAX_POSITION_SHARES

\* BUY logic for the lot v2i
V2BuyLot(accepted) ==
    /\ v2pc = "buy"
    /\ v2i <= LEVELS
    /\ LET lot == v2lots[v2i]
       IN  IF /\ lot.status = "OPEN"
              /\ v2price <= lot.buy_price
              /\ WithinCap(v2actual, lot.virtual_shares)
           THEN /\ v2actual' = v2actual + lot.virtual_shares
                /\ IF accepted
                   THEN /\ v2orders' = Append(v2orders,
                                          V2NewOrder(v2orders, "buy", lot.virtual_shares, v2i))
                        /\ bstatus' = Append(bstatus, "new")
                   ELSE UNCHANGED <<v2orders, bstatus>>
           ELSE /\ accepted
                /\ UNCHANGED <<v2actual, v2orders, bstatus>>
    /\ v2i' = v2i + 1
    /\ UNCHANGED <<v2pc, v2price, v2lots, v2paused, bpos>>
    /\ UNCHANGED tvars
    /\ UNCHANGED avars
    /\ UNCHANGED v1vars
    /\ UNCHANGED cvars

\* rows reconcile_orders selects: status NOT IN ('filled','canceled')
ToReconcile(os) == {i \in 1..Len(os) : os[i].status \notin {"filled", "canceled"}}

\* reconcile_orders(): the broker's status is copied into each selected row
reconcile_orders(os, bs) ==
    [i \in 1..Len(os) |-> IF i \in ToReconcile(os) THEN [os[i] EXCEPT !.status = bs[i]]
                          ELSE os[i]]

\* level rows after reconcile_orders
LotsAfterReconcile(l, os, bs) == l

\* end of the buy pass: reconcile_orders(), then the sleep
V2Reconcile ==
    /\ v2pc = "buy"
    /\ v2i > LEVELS
    /\ v2orders' = reconcile_orders(v2orders, bstatus)
    /\ v2lots' = LotsAfterReconcile(v2lots, v2orders, bstatus)
    /\ v2pc' = "sleep"
    /\ v2price' = 0
    /\ v2i' = 0
    /\ v2actual' = 0
    /\ UNCHANGED <<v2paused, bstatus, bpos>>
    /\ UNCHANGED tvars
    /\ UNCHANGED avars
    /\ UNCHANGED v1vars
    /\ UNCHANGED cvars

\* the broker ends order i with status st while the loop sleeps
BrokerResolve(i, st) ==
    /\ v2pc = "sleep"
    /\ i \in 1..Len(bstatus)
    /\ bstatus[i] = "new"
    /\ st = "filled" /\ v2orders[i].side = "sell" => bpos >= v2orders[i].qty
    /\ bstatus' = [bstatus EXCEPT ![i] = st]
    /\ bpos' = IF st # "filled" THEN bpos
               ELSE IF v2orders[i].side = "buy" THEN bpos + v2orders[i].qty
               ELSE bpos - v2orders[i].qty
    /\ UNCHANGED <<v2pc, v2price, v2i, v2actual, v2lots, v2orders, v2paused>>
    /\ UNCHANGED tvars
    /\ UNCHANGED avars
    /\ UNCHANGED v1vars
    /\ UNCHANGED cvars

NextV2 ==
    \/ \E p \in {0, INITIAL_PRICE} : V2Seed(p)
    \/ ApiPause
    \/ ApiResume
    \/ V2Skip
    \/ \E p \in V2PRICES \cup {NoPrice} : V2TickBegin(p)
    \/ \E accepted \in BOOLEAN : V2SellLot(accepted)
    \/ V2SellDone
    \/ \E accepted \in BOOLEAN : V2BuyLot(accepted)
    \/ V2Reconcile
    \/ \E i \in 1..MaxV2Orders + 2 * LEVELS, st \in Terminal : BrokerResolve(i, st)

\* ======================================= the allocation calculator (SpecAlloc)
\* reduction factors rfn / rfd and level counts the calculator is called with
AllocConfigs ==
    {[rfn |-> 1, rfd |-> 2, levels |-> n] : n \in 1..4}
    \cup {[rfn |-> 19, rfd |-> 20, levels |-> n] : n \in 1..3}
    \cup {[rfn |-> 9, rfd |-> 10, levels |-> 3], [rfn |-> 3, rfd |-> 4, levels |-> 4]}

\* starting cash (cents) and anchor prices (cents) the calculator is called with
ALLOC_CASH == {5000, 10000, 900000}
ALLOC_PRICES == {2500, 9980, 10000}

NoCalc == [kind |-> "none"]

AllocInit == calc = NoCalc

\* one call compute_allocation_levels(anchor_price, current_level, starting_cash,
\* rf, total_levels) of the tester
AllocLevel(cfg, anchor_price, starting_cash, current_level) ==
    /\ LET r == compute_level(anchor_price, current_level, starting_cash,
                              cfg.rfn, cfg.rfd, cfg.levels)
       IN  calc' = [kind |-> "level", cfg |-> cfg, anchor_price |-> anchor_price,
                    starting_cash |-> starting_cash, current_level |-> current_level,
                    shares |-> r.shares, buy_price |-> r.buy_price]
    /\ UNCHANGED tvars
    /\ UNCHANGED v2vars
    /\ UNCHANGED cvars
    /\ UNCHANGED v1vars

\* compute_allocation_levels(initial_price, starting_cash, rf, levels) of the v2
\* bot: the list of levels, alloc_cash = alloc_num / alloc_den
allocation_list(initial_price, starting_cash, rfn, rfd, levels) ==
    LET step == initial_price \div 100
    IN  [k \in 1..levels |->
            [level |-> k,
             buy_price |-> initial_price - (k - 1) * step,
             alloc_num |-> starting_cash * alloc_weight_num(rfn, rfd, levels, k - 1),
             alloc_den |-> alloc_weight_den(rfn, rfd, levels)]]

\* one call of the v2 compute_allocation_levels (initial_price a multiple of
\* 100 cents, so that the 1% step is a whole number of cents)
AllocList(cfg, initial_price, starting_cash) ==
    /\ initial_price % 100 = 0
    /\ calc' = [kind |-> "list", cfg |-> cfg, initial_price |-> initial_price,
                starting_cash |-> starting_cash,
                allocs |-> allocation_list(initial_price, starting_cash,
                                           cfg.rfn, cfg.rfd, cfg.levels)]
    /\ UNCHANGED tvars
    /\ UNCHANGED v2vars
    /\ UNCHANGED cvars
    /\ UNCHANGED v1vars

\* market prices (cents) a season of the tester is anchored at
ROW_PRICES == {40, 9980}

\* the rows simulation_loop writes to virtual_lots in a season that starts at
\* market price `target` with starting equity `starting_cash` and goes down to
\* the last level: level 1 from STARTUP, the others from the generation block,
\* which takes the buy_price of level 1 as the anchor price
SeasonRows(target, starting_cash) ==
    /\ calc' = [kind |-> "rows", target |-> target, starting_cash |-> starting_cash,
                rows |-> [k \in 1..TotalLevels |->
                             IF k = 1
                             THEN AnchorRow(target, starting_cash, 0)
                             ELSE PendingRow(AnchorLimit(target), k - 1, starting_cash)]]
    /\ UNCHANGED tvars
    /\ UNCHANGED v2vars
    /\ UNCHANGED cvars
    /\ UNCHANGED v1vars

NextAlloc ==
    \/ \E cfg \in AllocConfigs, a \in ALLOC_PRICES, c \in ALLOC_CASH :
          \E i \in 0..cfg.levels : AllocLevel(cfg, a, c, i)
    \/ \E cfg \in AllocConfigs, a \in ALLOC_PRICES, c \in ALLOC_CASH : AllocList(cfg, a, c)
    \/ \E a \in ROW_PRICES, c \in ALLOC_CASH : SeasonRows(a, c)

\* ============================================== the v1 bot (SpecV1)
\* TOTAL_LEVELS of the v1 bot: 88 in the source, a small number here
TOTAL_LEVELS == 3
\* STARTING_CASH, in cents
STARTING_CASH == 25000000
\* ask prices fetch_tqqq_price returns, in cents: whole dollars, so that the
\* 1% steps of an anchor are whole cents
V1PRICES == {9800, 9900, 10000, 3920000, 4000000}
\* order_id None
NoOrderId == 0
\* `shares` before it is computed
NoShares == -1

V1Init ==
    /\ v1pc = "sleep"
    /\ v1price = 0
    /\ v1ledger = << >>
    /\ v1file = << >>
    /\ v1shares = NoShares
    /\ v1order_id = NoOrderId
    /\ v1broker = 0

\* calculate_shares_to_buy(starting_cash, REDUCTION_FACTOR, lots_held_before,
\* current_price), with REDUCTION_FACTOR = RFNum / RFDen
calculate_shares_to_buy(starting_cash, lots_held_before, current_price) ==
    IF lots_held_before >= TOTAL_LEVELS THEN 0
    ELSE Max(0, (starting_cash * alloc_weight_num(RFNum, RFDen, TOTAL_LEVELS, lots_held_before))
                   \div (alloc_weight_den(RFNum, RFDen, TOTAL_LEVELS) * current_price))

\* submit_bracket_order: the id of the new order, or None when submit_order raises
submit_bracket_order(accepted, nbroker) == IF accepted THEN nbroker + 1 ELSE NoOrderId

\* open_lots = ledger_df[ledger_df['is_open']]
open_lots(ledger) == SelectSeq(ledger, LAMBDA r : r.is_open)

\* open_lots['level'].max()
deepest_level(ol) == CHOOSE m \in {ol[i].level : i \in 1..Len(ol)} :
                        \A i \in 1..Len(ol) : ol[i].level <= m

\* ledger_df[ledger_df['level'] == 0].iloc[0]
anchor_lot(ledger) ==
    ledger[CHOOSE i \in 1..Len(ledger) :
              /\ ledger[i].level = 0
              /\ \A j \in 1..(i - 1) : ledger[j].level # 0]

\* anchor_price * (1 - next_buy_level * PROFIT_TARGET_PERCENT)
next_buy_price_target(anchor_price, next_buy_level) ==
    (anchor_price * (100 - next_buy_level)) \div 100

\* variant: the next level is bought whatever the price
GridTriggered_anyprice(current_price, target, next_buy_level) ==
    next_buy_level < TOTAL_LEVELS

\* `if current_price <= next_buy_price_target and next_buy_level < TOTAL_LEVELS`
GridTriggered(current_price, target, next_buy_level) ==
    current_price <= target /\ next_buy_level < TOTAL_LEVELS

\* variant: the row is appended whatever submit_bracket_order returned
LedgerAfterSubmit_always(ledger, row, order_id) == Append(ledger, row)

\* `if order_id: ... ledger_df = pd.concat([ledger_df, new_row])`
LedgerAfterSubmit(ledger, row, order_id) ==
    IF order_id # NoOrderId THEN Append(ledger, row) ELSE ledger

V1Row(purchase_price, shares, target_sell_price, order_id, level) ==
    [purchase_price |-> purchase_price, shares |-> shares,
     target_sell_price |-> target_sell_price, alpaca_order_id |-> order_id,
     is_open |-> TRUE, level |-> level]

\* the call result when no order is attempted
V1NoBuy(ledger, shares) == [ledger |-> ledger, shares |-> shares, order_id |-> NoOrderId]

\* a buy of `shares` at `entry`: nothing when shares is 0, else the submission
\* and, with an order id, the new row
V1Buy(ledger, shares, entry, target_sell_price, level, accepted, nbroker) ==
    IF shares > 0
    THEN LET order_id == submit_bracket_order(accepted, nbroker)
         IN  [ledger |-> LedgerAfterSubmit(ledger,
                            V1Row(entry, shares, target_sell_price, order_id, level),
                            order_id),
              shares |-> shares, order_id |-> order_id]
    ELSE V1NoBuy(ledger, shares)

\* trading_logic(ledger_df, current_price, starting_cash); accepted: the broker
\* takes the order of this call; nbroker: orders it has taken so far
trading_logic(ledger, current_price, starting_cash, accepted, nbroker) ==
    LET ol == open_lots(ledger)
    IN  IF ol = << >>
        THEN V1Buy(ledger,
                   calculate_shares_to_buy(starting_cash, 0, current_price),
                   current_price, (current_price * 101) \div 100, 0, accepted, nbroker)
        ELSE LET anchor_price   == anchor_lot(ledger).purchase_price
                 next_buy_level == deepest_level(ol) + 1
                 target         == next_buy_price_target(anchor_price, next_buy_level)
             IN  IF GridTriggered(current_price, target, next_buy_level)
                 THEN V1Buy(ledger,
                            calculate_shares_to_buy(starting_cash, next_buy_level, target),
                            target,
                            next_buy_price_target(anchor_price, next_buy_level - 1),
                            next_buy_level, accepted, nbroker)
                 ELSE V1NoBuy(ledger, NoShares)

\* is_market_open() is False: the cycle sleeps for an hour
V1MarketClosed ==
    /\ v1pc = "sleep"
    /\ UNCHANGED v1vars
    /\ UNCHANGED tvars
    /\ UNCHANGED v2vars
    /\ UNCHANGED avars
    /\ UNCHANGED cvars

\* current_price = fetch_tqqq_price(); None ends the cycle
V1Fetch(p) ==
    /\ v1pc = "sleep"
    /\ IF p = NoPrice
       THEN UNCHANGED <<v1pc, v1price>>
       ELSE v1pc' = "recon" /\ v1price' = p
    /\ UNCHANGED <<v1ledger, v1file, v1shares, v1order_id, v1broker>>
    /\ UNCHANGED tvars
    /\ UNCHANGED v2vars
    /\ UNCHANGED avars
    /\ UNCHANGED cvars

\* reconciliation_check(ledger_df): returns the ledger as it is; with a
\* non-empty ledger it calls get_orders, and when that raises the cycle ends
\* in the except clause of main
V1Reconcile(ok) ==
    /\ v1pc = "recon"
    /\ IF ok \/ v1ledger = << >>
       THEN /\ ok
            /\ v1pc' = "logic"
            /\ UNCHANGED v1price
       ELSE /\ v1pc' = "sleep"
            /\ v1price' = 0
    /\ UNCHANGED <<v1ledger, v1file, v1shares, v1order_id, v1broker>>
    /\ UNCHANGED tvars
    /\ UNCHANGED v2vars
    /\ UNCHANGED avars
    /\ UNCHANGED cvars

\* ledger_df = trading_logic(...); save_ledger(ledger_df); sleep
V1TradingLogic(accepted) ==
    /\ v1pc = "logic"
    /\ LET r == trading_logic(v1ledger, v1price, STARTING_CASH, accepted, v1broker)
       IN  /\ v1ledger' = r.ledger
           /\ v1file' = r.ledger
           /\ v1shares' = r.shares
           /\ v1order_id' = r.order_id
           /\ v1broker' = IF r.order_id # NoOrderId THEN v1broker + 1 ELSE v1broker
    /\ v1pc' = "sleep"
    /\ v1price' = 0
    /\ UNCHANGED tvars
    /\ UNCHANGED v2vars
    /\ UNCHANGED avars
    /\ UNCHANGED cvars

NextV1 ==
    \/ V1MarketClosed
    \/ \E p \in V1PRICES \cup {NoPrice} : V1Fetch(p)
    \/ \E ok \in BOOLEAN : V1Reconcile(ok)
    \/ \E accepted \in BOOLEAN : V1TradingLogic(accepted)

Init == TesterInit /\ V2Init /\ AllocInit /\ CrashInit /\ V1Init

Next ==
    \/ \E p \in PRICES : TickBegin(p)
    \/ MatchEngine
    \/ SeasonCheck
    \/ GetStartCash
    \/ Startup
    \/ SellLogic
    \/ Generate
    \/ ExecuteBuys
    \/ ClearDb
    \/ Restart
    \/ \E p \in PRICES : HandleIndex(p)

Spec == Init /\ [][Next]_vars

SpecV2 == Init /\ [][NextV2]_vars

SpecAlloc == Init /\ [][NextAlloc]_vars

NextCrash ==
    \/ Next
    \/ CrashBetweenSteps
    \/ \E n \in 1..(2 * TotalLevels + MaxCrashes + 1) : CrashInMatch(n)
    \/ CrashInReset
    \/ CrashInStartup
    \/ \E k \in 1..TotalLevels : CrashInSell(k)
    \/ \E k \in 1..TotalLevels : CrashInBuy(k)

SpecCrash == Init /\ [][NextCrash]_vars

\* the steps of the `while True:` loop of simulation_loop
TickStep ==
    \/ \E p \in PRICES : TickBegin(p)
    \/ MatchEngine
    \/ SeasonCheck
    \/ GetStartCash
    \/ Startup
    \/ SellLogic
    \/ Generate
    \/ ExecuteBuys

\* the tester whose loop thread keeps running: after time.sleep(1) the next
\* iteration starts, and a started iteration runs to its end
SpecLive == Init /\ [][Next]_vars /\ WF_vars(TickStep)

SpecV1 == Init /\ [][NextV1]_vars

TypeOK ==
    /\ pc \in {"sleep", "match", "season", "cash", "startup", "sell", "gen", "buy"}
    /\ price \in PRICES \cup {0}
    /\ tables \in BOOLEAN
    /\ DOMAIN lots \subseteq 1..TotalLevels
    /\ \A k \in DOMAIN lots : lots[k].status \in {"PENDING", "ORDER_SENT", "OPEN", "CLOSED"}
    /\ \A i \in 1..Len(orders) : orders[i].status \in {"new", "filled"}
    /\ resets \in 0..MaxResets

\* ------------------------------------------------------------ properties
CSE == "campaign_starting_equity"

\* an iteration of simulation_loop ends with this step
TickEnds == pc # "sleep" /\ pc' = "sleep"

\* rows appended to the orders table by this step
Submitted == IF Len(orders') > Len(orders) THEN (Len(orders) + 1)..Len(orders') ELSE {}

\* quantity of the filled buy orders minus the filled sell orders of the table
RECURSIVE FilledQty(_)
FilledQty(os) ==
    IF os = << >> THEN 0
    ELSE LET o == os[Len(os)]
         IN  FilledQty(SubSeq(os, 1, Len(os) - 1))
             + (IF o.status # "filled" THEN 0
                ELSE IF o.side = "buy" THEN o.qty ELSE 0 - o.qty)

NewOrdersOf(k) == {i \in 1..Len(orders) : orders[i].status = "new" /\ orders[i].lvl = k}

\* C1: a CLOSED level stays CLOSED in every step of the loop; it leaves the
\* ledger only when the whole ledger is deleted, by a season reset or a wipe.
C1_ClosedIsTerminal ==
    [][\A k \in DOMAIN lots :
          lots[k].status = "CLOSED" =>
             IF k \in DOMAIN lots'
             THEN lots'[k].status = "CLOSED"
             ELSE lots' = NoLots /\ (resets' = resets + 1 \/ ~tables')]_vars

\* level 2 is CLOSED and the loop has gone on to open level 3
C1_Witness ==
    /\ DOMAIN lots = {1, 2, 3}
    /\ lots[2].status = "CLOSED"
    /\ lots[3].status = "OPEN"

\* C2: every status change of a level is PENDING->ORDER_SENT with a buy order,
\* ORDER_SENT->OPEN on a buy, OPEN->ORDER_SENT with a sell order,
\* ORDER_SENT->CLOSED on a sell, or ORDER_SENT->PENDING; a level enters the
\* ledger PENDING or as the anchor with its buy order; a CLOSED level has a
\* filled buy order.
C2_Transitions ==
    /\ [][/\ \A k \in (DOMAIN lots) \cap (DOMAIN lots') :
               lots'[k].status # lots[k].status =>
                  LET a == lots[k].status
                      b == lots'[k].status
                  IN  \/ a = "PENDING" /\ b = "ORDER_SENT"
                         /\ orders'[lots'[k].alpaca_order_id].side = "buy"
                      \/ a = "ORDER_SENT" /\ b = "OPEN"
                         /\ orders[lots[k].alpaca_order_id].side = "buy"
                      \/ a = "OPEN" /\ b = "ORDER_SENT"
                         /\ orders'[lots'[k].alpaca_order_id].side = "sell"
                      \/ a = "ORDER_SENT" /\ b = "CLOSED"
                         /\ orders[lots[k].alpaca_order_id].side = "sell"
                      \/ a = "ORDER_SENT" /\ b = "PENDING"
          /\ \A k \in (DOMAIN lots') \ (DOMAIN lots) :
               \/ lots'[k].status = "PENDING"
               \/ /\ k = 1
                  /\ lots'[k].status = "ORDER_SENT"
                  /\ orders'[lots'[k].alpaca_order_id].side = "buy"]_vars
    /\ [](\A k \in DOMAIN lots :
             lots[k].status = "CLOSED" =>
                \E i \in 1..Len(orders) :
                   orders[i].lvl = k /\ orders[i].side = "buy" /\ orders[i].status = "filled")

\* the anchor has gone through its whole life and is found CLOSED
C2_Witness ==
    /\ pc = "season"
    /\ AnchorClosed(lots)
    /\ Len(orders) >= 2

\* C3: an order submitted for a level of the ledger finds it PENDING (buy) or
\* OPEN (sell) and leaves it ORDER_SENT with the order's reference in the same
\* step; no level ever has two orders with status 'new'.
C3_OneInFlight ==
    /\ [][\A i \in Submitted :
            LET o == orders'[i]
                k == o.lvl
            IN  /\ o.status = "new"
                /\ k \in DOMAIN lots'
                /\ lots'[k].status = "ORDER_SENT"
                /\ lots'[k].alpaca_order_id = o.alpaca_id
                /\ k \in DOMAIN lots =>
                      lots[k].status = (IF o.side = "buy" THEN "PENDING" ELSE "OPEN")]_vars
    /\ [](\A k \in 1..TotalLevels : Cardinality(NewOrdersOf(k)) <= 1)

\* two levels wait for a fill, each with its one order
C3_Witness ==
    /\ pc = "sleep"
    /\ Cardinality(LotsWithStatus(lots, "ORDER_SENT")) = 2
    /\ \A k \in LotsWithStatus(lots, "ORDER_SENT") : Cardinality(NewOrdersOf(k)) = 1

\* C4: the shares of the OPEN levels are the shares held, the filled buys
\* minus the filled sells of the season.
C4_OpenSharesAreHeld == get_sim_shares(lots) = FilledQty(orders)

\* C5: when the shares of the OPEN levels differ from the position, the page
\* reports reconciled = false, and an iteration that meets the difference at
\* its guard point submits no order.
C5_GuardSuppresses ==
    [][/\ (dash' # dash /\ dash'.kind = "page" /\ dash'.assumed_shares # position')
             => ~dash'.reconciled
       /\ hist.mismatch => Submitted = {}]_vars

\* C6: when an order is recorded as rejected, canceled or expired, the level it
\* was submitted for is back in the state it had before the submission: for a
\* sell OPEN, for a buy PENDING (OPEN in the v2 ledger, whose rows wait for
\* their buy as OPEN).
C6_RejectedOrderReleasesLevel ==
    [][\A i \in 1..Len(v2orders) :
          (/\ Len(v2orders') >= i
           /\ v2orders[i].status \notin Terminal
           /\ v2orders'[i].status \in {"rejected", "canceled", "expired"})
          => LET k == v2orders[i].lvl
             IN  IF v2orders[i].side = "sell"
                 THEN v2lots'[k].status = "OPEN"
                 ELSE v2lots'[k].status \in {"PENDING", "OPEN"}]_vars

\* C7: the iteration that resets the season ends with no level of the old
\* season and with campaign_starting_equity = cash + shares held * price.
C7_ResetSetsEquity ==
    [][(hist.reset /\ TickEnds) =>
          /\ \A k \in DOMAIN lots' : k = 1 /\ lots'[k].status = "ORDER_SENT"
          /\ HasMeta(meta', CSE)
          /\ meta'[CSE] = get_sim_cash(meta') + position' * price]_vars

\* C8: the season reset stores the profit of the finished season, equity minus
\* the starting equity it began with, as banked_pl, and the page shows it.
C8_BankedPl ==
    [][/\ (pc = "season" /\ AnchorClosed(lots)) =>
             /\ HasMeta(meta', "banked_pl")
             /\ meta'["banked_pl"] = get_sim_cash(meta) + position * price - meta[CSE]
       /\ (dash' # dash /\ dash'.kind = "page" /\ resets > 0) =>
             /\ HasMeta(meta, "banked_pl")
             /\ dash'.last_season_pl = meta["banked_pl"]]_vars

\* C9: a step gives campaign_starting_equity a new value only when it
\* initialises a missing value from initial_cash or resets the season.
C9_StartEquityFrame ==
    [][(HasMeta(meta', CSE) /\ (~HasMeta(meta, CSE) \/ meta'[CSE] # meta[CSE])) =>
          \/ pc = "cash" /\ ~HasMeta(meta, CSE) /\ meta'[CSE] = InitialCash
          \/ pc = "season" /\ AnchorClosed(lots) /\ meta'[CSE] = get_sim_cash(meta')]_vars

\* a reset has compounded the starting equity and the next season trades on
C9_Witness ==
    /\ HasMeta(meta, CSE)
    /\ meta[CSE] # InitialCash
    /\ 2 \in DOMAIN lots
    /\ lots[2].status = "OPEN"

\* C10: the iteration that follows clear_db ends with a level 1 that is
\* ORDER_SENT and references a new buy order.
C10_FreshAnchorAfterWipe ==
    [][(hist.wiped /\ TickEnds) =>
          /\ 1 \in DOMAIN lots'
          /\ lots'[1].status = "ORDER_SENT"
          /\ \E i \in 1..Len(orders') :
                /\ orders'[i].alpaca_id = lots'[1].alpaca_order_id
                /\ orders'[i].side = "buy"
                /\ orders'[i].status = "new"]_vars

\* C11: the iteration that finds the ledger without a level creates level 1
\* with buy_price equal to the market price it read, and submits the buy order
\* of level 1 in the same step.
C11_AnchorAtMarketPrice ==
    [][(pc = "startup" /\ Levels(lots) = {}) =>
          /\ 1 \in DOMAIN lots'
          /\ lots'[1].buy_price = price
          /\ \E i \in Submitted :
                /\ orders'[i].side = "buy"
                /\ orders'[i].lvl = 1
                /\ orders'[i].alpaca_id = lots'[1].alpaca_order_id]_vars

\* C12: while level 1 stays in the ledger its buy_price does not change, and
\* every level k > 1 is created with, and keeps, buy_price = anchor * (1 - k/100)
\* rounded to cents, anchor being the buy_price of the level 1 row that is in
\* the ledger with it.
C12_AnchorDerivation ==
    /\ [][/\ (1 \in DOMAIN lots /\ 1 \in DOMAIN lots') =>
                lots'[1].buy_price = lots[1].buy_price
          /\ \A k \in (DOMAIN lots') \ (DOMAIN lots) :
                k > 1 => /\ 1 \in DOMAIN lots
                         /\ 100 * lots'[k].buy_price - lots[1].buy_price * (100 - k) \in -50..50]_vars
    /\ [](\A k \in DOMAIN lots :
             k > 1 => /\ 1 \in DOMAIN lots
                      /\ 100 * lots[k].buy_price - lots[1].buy_price * (100 - k) \in -50..50)

\* a later season has its own anchor and a level derived from it
C12_Witness ==
    /\ resets >= 1
    /\ 2 \in DOMAIN lots
    /\ lots[2].status = "OPEN"
    /\ lots[1].buy_price = AnchorLimit(10200)

\* C13: a level beyond the anchor enters the ledger only in a step that finds
\* no level PENDING and no level ORDER_SENT; its number is one above the highest
\* level present, its price and shares are computed from the anchor's buy_price
\* and the stored campaign_starting_equity, and its status is PENDING.
C13_LazyGeneration ==
    [][\A k \in (DOMAIN lots') \ (DOMAIN lots) :
          k > 1 =>
             /\ \A j \in DOMAIN lots : lots[j].status \notin {"PENDING", "ORDER_SENT"}
             /\ k - 1 \in DOMAIN lots
             /\ \A j \in DOMAIN lots : j < k
             /\ lots'[k].status = "PENDING"
             /\ 100 * lots'[k].buy_price - lots[1].buy_price * (100 - k) \in -50..50
             /\ HasMeta(meta, CSE)
             /\ lots'[k].virtual_shares =
                   Max(1, AffordableShares(meta[CSE], RFNum, RFDen, TotalLevels, k - 1,
                                           lots'[k].buy_price))]_vars

\* level 3 has just been generated in a season that started with compounded equity
C13_Witness ==
    /\ pc = "buy"
    /\ 3 \in DOMAIN lots
    /\ lots[3].status = "PENDING"
    /\ HasMeta(meta, CSE)
    /\ meta[CSE] # InitialCash

\* C14: at most one level is PENDING in every reachable state (the number of
\* OPEN levels is not limited).
C14_OnePending == Cardinality(LotsWithStatus(lots, "PENDING")) <= 1

\* two levels are OPEN while the next one is PENDING
C14_Witness ==
    /\ Cardinality(LotsWithStatus(lots, "OPEN")) >= 2
    /\ Cardinality(LotsWithStatus(lots, "PENDING")) = 1

\* C15: the level numbers in the ledger are exactly 1..k for some k from 0 to
\* the configured number of levels.
C15_DenseLevels ==
    /\ DOMAIN lots = 1..Cardinality(DOMAIN lots)
    /\ Cardinality(DOMAIN lots) <= TotalLevels

\* the ledger is full, nothing is PENDING or ORDER_SENT, and the generation
\* step has run without adding a level
C15_Witness ==
    /\ pc = "buy"
    /\ DOMAIN lots = 1..TotalLevels
    /\ \A k \in DOMAIN lots : lots[k].status \in {"OPEN", "CLOSED"}

\* C16: in the Execute Buys step, a PENDING level whose buy_price is at or
\* above the current price gets exactly one buy order, for its shares at its
\* buy_price, and becomes ORDER_SENT with that order's reference; a PENDING
\* level whose buy_price is below the current price gets no order and is left
\* as it is.
C16_BuyOnTouch ==
    [][pc = "buy" =>
          \A k \in DOMAIN lots :
             lots[k].status = "PENDING" =>
                LET mine == {i \in Submitted : orders'[i].lvl = k}
                IN  IF price <= lots[k].buy_price
                    THEN /\ Cardinality(mine) = 1
                         /\ \A i \in mine :
                               /\ orders'[i].side = "buy"
                               /\ orders'[i].status = "new"
                               /\ orders'[i].price = lots[k].buy_price
                               /\ orders'[i].qty = lots[k].virtual_shares
                               /\ lots'[k].alpaca_order_id = orders'[i].alpaca_id
                         /\ lots'[k].status = "ORDER_SENT"
                    ELSE /\ mine = {}
                         /\ lots'[k] = lots[k]]_vars

\* the iteration has ended with the buy order of level 2 submitted at its buy_price
C16_Witness ==
    /\ pc = "sleep"
    /\ 2 \in DOMAIN lots
    /\ lots[2].status = "ORDER_SENT"
    /\ orders[lots[2].alpaca_order_id].side = "buy"
    /\ orders[lots[2].alpaca_order_id].price = lots[2].buy_price

\* C17: every level of the ledger has sell_target = its own buy_price * 1.01
\* rounded to cents, and keeps that sell_target as long as it is in the ledger.
C17_SellTargetFromBuyPrice ==
    /\ [](\A k \in DOMAIN lots :
             100 * lots[k].sell_target - 101 * lots[k].buy_price \in -50..50)
    /\ [][\A k \in (DOMAIN lots) \cap (DOMAIN lots') :
             lots'[k].sell_target = lots[k].sell_target]_vars

\* the anchor and a generated level are in the ledger while the market has
\* moved below both buy prices
C17_Witness ==
    /\ pc = "sell"
    /\ DOMAIN lots = {1, 2}
    /\ price < lots[2].buy_price
    /\ lots[2].sell_target # lots[1].sell_target

\* C18: when the shares the allocated cash of a level can pay for, the floor of
\* allocated cash / buy price, are fewer than the minimum order size of one
\* share, the calculator reports the level as skipped: it returns 0 shares, the
\* value for which the loop creates no level and places no order.
C18_BelowMinimumSkipped ==
    (/\ calc.kind = "level"
     /\ calc.current_level < calc.cfg.levels
     /\ calc.starting_cash * alloc_weight_num(calc.cfg.rfn, calc.cfg.rfd, calc.cfg.levels,
                                              calc.current_level)
           < alloc_weight_den(calc.cfg.rfn, calc.cfg.rfd, calc.cfg.levels)
             * StepDownPrice(calc.anchor_price, calc.current_level + 1))
    => calc.shares = 0

\* sum of alloc_num over the first n elements of a list of allocations
RECURSIVE SumAllocNum(_, _)
SumAllocNum(allocs, n) ==
    IF n = 0 THEN 0 ELSE allocs[n].alloc_num + SumAllocNum(allocs, n - 1)

\* C19: for a reduction factor strictly between 0 and 1 and N >= 1 levels, the
\* allocated cash of the N levels of one call adds up to the starting cash (the
\* weights add up to 1).
C19_WeightsSumToOne ==
    (/\ calc.kind = "list"
     /\ 0 < calc.cfg.rfn
     /\ calc.cfg.rfn < calc.cfg.rfd)
    => /\ Len(calc.allocs) = calc.cfg.levels
       /\ \A k \in 1..Len(calc.allocs) :
             calc.allocs[k].alloc_num > 0 /\ calc.allocs[k].alloc_den = calc.allocs[1].alloc_den
       /\ SumAllocNum(calc.allocs, Len(calc.allocs))
             = calc.starting_cash * calc.allocs[1].alloc_den

\* the calculator has split 9000.00 over three levels with R = 0.95
C19_Witness ==
    /\ calc.kind = "list"
    /\ calc.cfg = [rfn |-> 19, rfd |-> 20, levels |-> 3]
    /\ calc.starting_cash = 900000

\* the call of the example: anchor 100.00, R = 0.95, N = 3, cash 9000.00,
\* level index 1
ExampleLevel2Call ==
    /\ calc.kind = "level"
    /\ calc.cfg = [rfn |-> 19, rfd |-> 20, levels |-> 3]
    /\ calc.anchor_price = 10000
    /\ calc.starting_cash = 900000
    /\ calc.current_level = 1

\* C20 as stated: the example call returns buy_price 98.00 and 31 shares.
C20_Level2Example31 == ExampleLevel2Call => (calc.buy_price = 9800 /\ calc.shares = 31)

\* C20: the example call returns buy_price 98.00 and 30 shares.
C20_Level2Example == ExampleLevel2Call => (calc.buy_price = 9800 /\ calc.shares = 30)

\* the calculator has been called with the arguments of the example
C20_Witness == ExampleLevel2Call /\ calc.shares > 0

\* the order of the steps of one iteration of simulation_loop
TickOrder ==
    {<<"sleep", "match">>, <<"match", "season">>, <<"match", "sleep">>,
     <<"season", "cash">>, <<"cash", "startup">>, <<"startup", "sell">>,
     <<"sell", "gen">>, <<"gen", "buy">>, <<"buy", "sleep">>}

\* C21: an iteration applies the fills first, then checks the anchor for the
\* season reset, and only then evaluates the sell and buy triggers; while the
\* triggers are evaluated the ledger never holds a CLOSED anchor.
C21_ResetBeforeTriggers ==
    /\ [][pc' # pc => <<pc, pc'>> \in TickOrder]_vars
    /\ [](pc \in {"cash", "startup", "sell", "gen", "buy"} =>
             ~(1 \in DOMAIN lots /\ lots[1].status = "CLOSED"))

\* the fill of the anchor's sell has reset the season and the same iteration
\* evaluates the triggers on the new anchor
C21_Witness ==
    /\ pc = "sell"
    /\ hist.reset
    /\ DOMAIN lots = {1}
    /\ lots[1].status = "ORDER_SENT"

\* C22: an iteration of the v2 loop that finds the paused flag set fetches no
\* price, submits no order and changes no row of virtual_lots or orders; the
\* loop stays in its sleep.
C22_PausedTickIsIdle ==
    [][(v2pc = "sleep" /\ v2paused) =>
          /\ v2pc' = "sleep"
          /\ v2price' = v2price
          /\ v2lots' = v2lots
          /\ v2orders' = v2orders]_vars

\* the bot is paused with a seeded ledger whose levels wait for their buys
C22_Witness ==
    /\ v2paused
    /\ v2pc = "sleep"
    /\ v2orders = << >>
    /\ \E k \in DOMAIN v2lots : v2lots[k].status = "OPEN"

\* C23: the paused flag changes only while the loop sleeps between two
\* iterations, so no iteration is running when api_pause completes; from then
\* until api_resume no iteration starts and no order is submitted.
C23_PauseLatency ==
    /\ [][v2paused' # v2paused => (v2pc = "sleep" /\ v2pc' = "sleep")]_vars
    /\ [](v2paused => v2pc = "sleep")
    /\ [][(v2paused /\ v2paused') => Len(v2orders') = Len(v2orders)]_vars

\* the bot is paused while it holds shares and an order is with the broker
C23_Witness ==
    /\ v2paused
    /\ bpos > 0
    /\ \E i \in 1..Len(bstatus) : bstatus[i] = "new"

\* C24: an iteration whose price fetch returns no price ends at once: it
\* submits no order, changes no row of virtual_lots or orders and leaves the
\* loop in its sleep, from where the next iteration fetches again; no step of
\* the sell or buy pass runs without a price.
C24_NoPriceSkipsTick ==
    /\ [][(v2pc = "sleep" /\ v2price' = NoPrice) =>
             /\ v2pc' = "sleep"
             /\ v2lots' = v2lots
             /\ v2orders' = v2orders]_vars
    /\ [](v2price = NoPrice => v2pc = "sleep")

\* the price fetch has failed after the bot had traded
C24_Witness ==
    /\ v2price = NoPrice
    /\ v2pc = "sleep"
    /\ Len(v2orders) > 0

\* C25: an iteration that raises (its first query finds no table) ends in the
\* except clause with the database as it was and the loop back at its sleep,
\* from where the next iteration starts; the loop is never anywhere but at one
\* of the steps of an iteration.
C25_ErrorsCaught ==
    /\ [][(pc = "match" /\ ~tables) =>
             /\ pc' = "sleep"
             /\ lots' = lots
             /\ orders' = orders
             /\ meta' = meta]_vars
    /\ [](pc \in {"sleep", "match", "season", "cash", "startup", "sell", "gen", "buy"})
    /\ []((pc = "sleep" /\ resets < MaxResets) => ENABLED (\E p \in PRICES : TickBegin(p)))

\* an iteration has failed on the dropped tables and the loop sleeps again
C25_Witness ==
    /\ pc = "sleep"
    /\ ~tables
    /\ ~hist.wiped

\* orders of the table that this step marks filled
FilledNow ==
    {i \in 1..Len(orders) :
        /\ i <= Len(orders')
        /\ orders[i].status = "new"
        /\ orders'[i].status = "filled"}

\* cash effect of the orders of os with index in S
RECURSIVE CashEffect(_, _)
CashEffect(os, S) ==
    IF S = {} THEN 0
    ELSE LET i == CHOOSE x \in S : TRUE
         IN  CashChange(os[i].side, os[i].qty, os[i].price) + CashEffect(os, S \ {i})

\* C26: in the database as any commit leaves it, and so as a stop of the
\* process leaves it, every order with status 'new' is referenced by exactly one
\* ORDER_SENT level, and the stored cash has moved by the cash effect of exactly
\* the orders whose status has become 'filled'.
C26_CommitConsistent ==
    /\ [](\A i \in 1..Len(orders) :
             orders[i].status = "new" =>
                Cardinality({k \in DOMAIN lots :
                                /\ lots[k].status = "ORDER_SENT"
                                /\ lots[k].alpaca_order_id = orders[i].alpaca_id}) = 1)
    /\ [][(tables /\ tables') =>
             get_sim_cash(meta') - get_sim_cash(meta) = CashEffect(orders, FilledNow)]_vars

C28_ResetHoldsNothing ==
    (pc = "season" /\ 1 \in DOMAIN lots /\ lots[1].status = "CLOSED") =>
       /\ \A k \in DOMAIN lots :
             /\ lots[k].status # "OPEN"
             /\ lots[k].status = "ORDER_SENT" => orders[lots[k].alpaca_order_id].side = "buy"
       /\ position = 0

\* C29: the cost of the filled buy orders of the season, the sum of quantity
\* times limit price, is at most campaign_starting_equity, and the stored cash
\* is never negative.
C29_WithinBudget ==
    /\ HasMeta(meta, CSE) =>
          0 - CashEffect(orders, {i \in 1..Len(orders) :
                                     orders[i].side = "buy" /\ orders[i].status = "filled"})
             <= meta[CSE]
    /\ get_sim_cash(meta) >= 0

\* C30: the match step of an iteration fills every 'new' order whose limit the
\* price has reached (buy: price <= limit, sell: price >= limit) and gives the
\* level that references it the status OPEN (buy) or CLOSED (sell) in the same
\* step; it leaves every other 'new' order and its level as they are.  So a
\* level whose buy is in flight is OPEN after the match step of the next
\* iteration whose price is at or below its buy_price.
C30_FillOnCross ==
    [][(pc = "match" /\ tables) =>
          /\ \A i \in 1..Len(orders) :
                orders[i].status = "new" =>
                   LET o == orders[i]
                       reached == IF o.side = "buy" THEN price <= o.price
                                  ELSE price >= o.price
                       refs == {k \in DOMAIN lots : lots[k].alpaca_order_id = o.alpaca_id}
                   IN  IF reached
                       THEN /\ orders'[i].status = "filled"
                            /\ \A k \in refs :
                                  lots'[k].status = (IF o.side = "buy" THEN "OPEN" ELSE "CLOSED")
                       ELSE /\ orders'[i] = o
                            /\ \A k \in refs : lots'[k] = lots[k]
          /\ \A k \in DOMAIN lots :
                (/\ lots[k].status = "ORDER_SENT"
                 /\ orders[lots[k].alpaca_order_id].side = "buy"
                 /\ price <= lots[k].buy_price)
                => lots'[k].status = "OPEN"]_vars

\* the match step has just filled the sell of level 1 while level 2 is OPEN
C30_Witness ==
    /\ pc = "season"
    /\ DOMAIN lots = {1, 2}
    /\ lots[1].status = "CLOSED"
    /\ lots[2].status = "OPEN"

\* quantity times limit price of the orders of os with index in S, counted
\* negative for a buy and positive for a sell
RECURSIVE SignedValue(_, _)
SignedValue(os, S) ==
    IF S = {} THEN 0
    ELSE LET i == CHOOSE x \in S : TRUE
             v == os[i].qty * os[i].price
         IN  (IF os[i].side = "buy" THEN 0 - v ELSE v) + SignedValue(os, S \ {i})

\* C31: the match step changes the cash by exactly quantity times limit price
\* of the orders it marks 'filled', minus for a buy and plus for a sell; no
\* other step of the loop changes the cash; and a 'filled' order is never
\* changed again (it only leaves the table when the table is emptied).
C31_FillAppliedOnce ==
    /\ [][(tables /\ tables') =>
             /\ get_sim_cash(meta') = get_sim_cash(meta) + SignedValue(orders, FilledNow)
             /\ FilledNow # {} => pc = "match"]_vars
    /\ [][\A i \in 1..Len(orders) :
             orders[i].status = "filled" =>
                \/ orders' = << >>
                \/ (i <= Len(orders') /\ orders'[i] = orders[i])]_vars

\* a buy and a sell have been filled and an iteration runs with both in the table
C31_Witness ==
    /\ pc = "sell"
    /\ \E i, j \in 1..Len(orders) :
          /\ orders[i].status = "filled" /\ orders[i].side = "buy"
          /\ orders[j].status = "filled" /\ orders[j].side = "sell"
    /\ get_sim_cash(meta) # InitialCash

\* C32: the season reset leaves the orders table empty, whatever the status of
\* its orders; so every order in the table belongs to a level of the present
\* ledger, an order with status 'new' is the one its level waits for, and a
\* fill changes the status of no level but the one it was submitted for.
C32_ResetRemovesOrders ==
    /\ [][(pc = "season" /\ AnchorClosed(lots)) => orders' = << >>]_vars
    /\ [](\A i \in 1..Len(orders) :
             /\ orders[i].lvl \in DOMAIN lots
             /\ orders[i].status = "new" =>
                   /\ lots[orders[i].lvl].alpaca_order_id = orders[i].alpaca_id
                   /\ lots[orders[i].lvl].status = "ORDER_SENT")
    /\ [][pc = "match" =>
             \A k \in (DOMAIN lots) \cap (DOMAIN lots') :
                lots'[k].status # lots[k].status =>
                   \E i \in FilledNow :
                      /\ orders[i].lvl = k
                      /\ orders[i].alpaca_id = lots[k].alpaca_order_id]_vars

\* the anchor's sell has filled while the buy order of level 2 is still 'new':
\* the reset is about to delete an unfilled order
C32_Witness ==
    /\ pc = "season"
    /\ AnchorClosed(lots)
    /\ \E i \in 1..Len(orders) : orders[i].status = "new" /\ orders[i].lvl = 2

\* the anchor waits for the fill of its sell order
AnchorSellInFlight ==
    /\ 1 \in DOMAIN lots
    /\ lots[1].status = "ORDER_SENT"
    /\ lots[1].alpaca_order_id \in 1..Len(orders)
    /\ orders[lots[1].alpaca_order_id].side = "sell"

\* C33: with the price at or above the anchor's sell_target, the sell logic
\* of an iteration that finds the anchor OPEN submits its sell at the
\* sell_target; the sell stays in flight until the next iteration, whose match
\* step fills it, whose season check resets the ledger and whose STARTUP places
\* a new level 1 at 1.005 times that iteration's price: two iterations in all.
\* No step of an iteration is ever blocked, and while the loop keeps running
\* the new level 1 is reached unless the price falls below the sell_target or
\* the database is wiped first.
C33_AnchorSoldAndReplaced ==
    /\ [][(/\ pc = "sell"
           /\ 1 \in DOMAIN lots
           /\ lots[1].status = "OPEN"
           /\ price >= lots[1].sell_target)
          => /\ lots'[1].status = "ORDER_SENT"
             /\ \E i \in Submitted :
                   /\ orders'[i].alpaca_id = lots'[1].alpaca_order_id
                   /\ orders'[i].side = "sell"
                   /\ orders'[i].status = "new"
                   /\ orders'[i].price = lots[1].sell_target]_vars
    /\ [][(AnchorSellInFlight /\ pc \in {"gen", "buy", "sleep"} /\ tables')
          => (lots'[1] = lots[1] /\ AnchorSellInFlight')]_vars
    /\ [][(/\ pc = "match"
           /\ tables
           /\ AnchorSellInFlight
           /\ price >= lots[1].sell_target)
          => /\ pc' = "season"
             /\ lots'[1].status = "CLOSED"
             /\ orders'[lots[1].alpaca_order_id].status = "filled"]_vars
    /\ [][(pc = "season" /\ 1 \in DOMAIN lots /\ lots[1].status = "CLOSED")
          => (pc' = "cash" /\ lots' = NoLots /\ resets' = resets + 1)]_vars
    /\ [][(pc = "cash" /\ lots = NoLots) => (pc' = "startup" /\ lots' = NoLots)]_vars
    /\ [][(pc = "startup" /\ lots = NoLots)
          => /\ pc' = "sell"
             /\ DOMAIN lots' = {1}
             /\ lots'[1].status = "ORDER_SENT"
             /\ 1000 * lots'[1].buy_price - 1005 * price \in -500..500
             /\ \E i \in Submitted :
                   /\ orders'[i].alpaca_id = lots'[1].alpaca_order_id
                   /\ orders'[i].side = "buy"
                   /\ orders'[i].price = lots'[1].buy_price]_vars
    /\ [](pc # "sleep" => ENABLED <<TickStep>>_vars)
    /\ ((/\ pc = "sell"
         /\ resets = 0
         /\ 1 \in DOMAIN lots
         /\ lots[1].status = "OPEN"
         /\ price >= lots[1].sell_target)
        ~> (\/ /\ resets = 1
               /\ pc = "sell"
               /\ DOMAIN lots = {1}
               /\ lots[1].status = "ORDER_SENT"
               /\ lots[1].buy_price = AnchorLimit(price)
            \/ pc # "sleep" /\ 1 \in DOMAIN lots /\ price < lots[1].sell_target
            \/ ~tables))

\* the second of the two iterations has reset the season and placed the new
\* anchor from its own price
C33_Witness ==
    /\ pc = "sell"
    /\ hist.reset
    /\ resets = 1
    /\ price = 10200
    /\ DOMAIN lots = {1}
    /\ lots[1].buy_price = AnchorLimit(10200)
    /\ Len(orders) = 1

\* buy orders appended to the orders table by this step
SubmittedBuys == {i \in Submitted : orders'[i].side = "buy"}

\* C34: an iteration submits at most one buy order. Buy orders come from
\* STARTUP (the anchor's) and from Execute Buys (a PENDING level's) only, one
\* per step at most; while the anchor's buy is in flight no level is PENDING,
\* so the iteration whose STARTUP submitted the anchor's buy submits no other.
\* A level k > 1 is generated only when the buy of level k - 1 has filled, and
\* it is the only level added, however far the price is below the grid.
C34_OneBuyPerTick ==
    /\ [][/\ Cardinality(SubmittedBuys) <= 1
          /\ SubmittedBuys # {} => pc \in {"startup", "buy"}
          /\ pc = "startup" =>
                \A i \in SubmittedBuys : orders'[i].lvl = 1 /\ lots = NoLots
          /\ pc = "buy" =>
                \A i \in SubmittedBuys :
                   /\ orders'[i].lvl \in DOMAIN lots
                   /\ lots[orders'[i].lvl].status = "PENDING"]_vars
    /\ []((/\ 1 \in DOMAIN lots
           /\ lots[1].status = "ORDER_SENT"
           /\ orders[lots[1].alpaca_order_id].side = "buy")
          => LotsWithStatus(lots, "PENDING") = {})
    /\ [][\A k \in (DOMAIN lots') \ (DOMAIN lots) :
             k > 1 =>
                /\ (DOMAIN lots') \ (DOMAIN lots) = {k}
                /\ lots[k - 1].status \in {"OPEN", "CLOSED"}
                /\ \E i \in 1..Len(orders) :
                      /\ orders[i].lvl = k - 1
                      /\ orders[i].side = "buy"
                      /\ orders[i].status = "filled"]_vars

\* the price is below the buy price of level 3, and the generation step has
\* added level 2 only
C34_Witness ==
    /\ pc = "buy"
    /\ DOMAIN lots = {1, 2}
    /\ lots[2].status = "PENDING"
    /\ price < StepDownPrice(lots[1].buy_price, 3)

\* C35: every row of a season's ledger has sell_target above its buy_price and
\* a positive buy_price, and the buy_price falls from each level to the next.
C35_PricesOrdered ==
    calc.kind = "rows" =>
       \A k \in DOMAIN calc.rows :
          /\ calc.rows[k].sell_target > calc.rows[k].buy_price
          /\ calc.rows[k].buy_price > 0
          /\ k > 1 => calc.rows[k].buy_price < calc.rows[k - 1].buy_price

\* C36: the orders table of the v2 bot never holds more than one buy order
\* for one level.
C36_BoughtOnce ==
    \A k \in DOMAIN v2lots :
       Cardinality({i \in 1..Len(v2orders) :
                      v2orders[i].side = "buy" /\ v2orders[i].lvl = k}) <= 1

\* C37: the buy pass starts from the position the broker reports; a triggered
\* level whose shares would take the running total above MAX_POSITION_SHARES
\* gets no order, leaves the total as it is, and the pass goes on to the next
\* level; a level gets an order only when the total stays within the cap, so
\* a total raised in the pass is never above MAX_POSITION_SHARES.
C37_PositionCap ==
    /\ [][(v2pc = "sell" /\ v2pc' = "buy") => v2actual' = bpos]_vars
    /\ [][(v2pc = "buy" /\ v2i <= LEVELS) =>
             LET lot == v2lots[v2i]
                 triggered == lot.status = "OPEN" /\ v2price <= lot.buy_price
                 over == v2actual + lot.virtual_shares > MAX_POSITION_SHARES
             IN  /\ v2pc' = "buy"
                 /\ v2i' = v2i + 1
                 /\ (triggered /\ over) =>
                       (v2orders' = v2orders /\ v2actual' = v2actual)
                 /\ (triggered /\ ~over) =>
                       v2actual' = v2actual + lot.virtual_shares
                 /\ Len(v2orders') > Len(v2orders) => (triggered /\ ~over)
                 /\ v2actual' > v2actual => v2actual' <= MAX_POSITION_SHARES]_vars

\* with 6 shares held, the pass has skipped level 1 (12 > 10) and bought
\* level 2 (9 <= 10)
C37_Witness ==
    /\ v2pc = "buy"
    /\ v2i = 3
    /\ bpos = 6
    /\ v2actual = 9
    /\ v2lots[1].status = "OPEN"
    /\ v2price <= v2lots[2].buy_price
    /\ Len(v2orders) = 2
    /\ v2orders[2].lvl = 2
    /\ v2orders[2].status = "new"

\* C38: a step that marks a v2 level CLOSED records a sell order for that
\* level in the same step; a sell the broker did not accept leaves the level
\* OPEN.
C38_ClosedOnlyWhenSold ==
    [][\A k \in DOMAIN v2lots :
          (v2lots[k].status = "OPEN" /\ v2lots'[k].status = "CLOSED") =>
             /\ Len(v2orders') = Len(v2orders) + 1
             /\ v2orders'[Len(v2orders')].side = "sell"
             /\ v2orders'[Len(v2orders')].lvl = k]_vars

\* the ledger after the step is the ledger before it plus one row at the end
OneRowAppended ==
    /\ Len(v1ledger') = Len(v1ledger) + 1
    /\ SubSeq(v1ledger', 1, Len(v1ledger)) = v1ledger

\* C39: a call of the v1 trading_logic changes the ledger only by appending
\* one row, and only when the broker has taken a new bracket order, whose id
\* the row carries; when the submission returns no order id, or the share
\* count is 0 (no submission is made), the ledger after the call is the ledger
\* before it. No other step of the cycle changes the ledger.
C39_RowOnlyWithOrderId ==
    [][/\ v1ledger' # v1ledger =>
             /\ v1pc = "logic"
             /\ OneRowAppended
             /\ v1broker' = v1broker + 1
             /\ v1order_id' = v1broker'
             /\ v1ledger'[Len(v1ledger')].alpaca_order_id = v1order_id'
             /\ v1ledger'[Len(v1ledger')].shares = v1shares'
             /\ v1shares' > 0
       /\ (v1pc = "logic" /\ v1order_id' = NoOrderId) => v1ledger' = v1ledger
       /\ (v1pc = "logic" /\ v1shares' = 0) =>
             (v1ledger' = v1ledger /\ v1broker' = v1broker)]_vars

\* the submission for the next level of a ledger with lots has failed
C39_Witness ==
    /\ v1pc = "sleep"
    /\ v1shares > 0
    /\ v1order_id = NoOrderId
    /\ Len(v1ledger) >= 1
    /\ v1file = v1ledger

\* C40: the rows of the v1 ledger carry the levels 0, 1, 2, ... in order, one
\* row per level, fewer than TOTAL_LEVELS + 1 of them; a step adds at most one
\* row; and the row of a level k + 1 >= 1 is added only in a cycle whose price
\* is at or below anchor * (1 - (k + 1) / 100), the anchor being the
\* purchase_price of the level 0 row.
C40_OneLotPerLevel ==
    /\ [](/\ Len(v1ledger) <= TOTAL_LEVELS
          /\ \A i \in 1..Len(v1ledger) : v1ledger[i].level = i - 1)
    /\ [][v1ledger' # v1ledger => OneRowAppended]_vars
    /\ [][(v1ledger' # v1ledger /\ Len(v1ledger) >= 1) =>
             /\ v1ledger[1].level = 0
             /\ 100 * v1price <= v1ledger[1].purchase_price * (100 - Len(v1ledger))
             /\ 100 * v1ledger'[Len(v1ledger')].purchase_price
                   = v1ledger[1].purchase_price * (100 - Len(v1ledger))]_vars

\* the price has fallen through two levels below the anchor and each has its lot
C40_Witness ==
    /\ Len(v1ledger) >= 3
    /\ v1ledger[3].level = 2
    /\ v1ledger[3].purchase_price < v1ledger[2].purchase_price
    /\ v1order_id = v1ledger[3].alpaca_order_id

====
